---- MODULE Spec2Model ----
(***************************************************************************)
(* Model of json_to_db.py: JSONMigrator, the one-shot migration of the     *)
(* legacy JSON files (bots.json, msg_map.json, verified_users.json,        *)
(* blacklist.json) into the database behind the `database` module.         *)
(*                                                                         *)
(* The migrator is sequential.  Its state is the statistics object, the    *)
(* store, and the position of control: which pass, which group, which      *)
(* sub-mapping.  The JSON documents are read record by record: each loop   *)
(* iteration draws the next record of the document from a small universe.  *)
(* When `recording` is set the records drawn are kept in `tape`, so that a *)
(* second process run can be fed the very same documents.                  *)
(***************************************************************************)
EXTENDS Integers, Sequences, FiniteSets, TLC

VARIABLES
    store,          \* the database: bots, mappings, verified, blacklist
    stats,          \* self.stats: four counters and the error list
    pc,             \* position of control
    status,         \* "running", or how the process ended
    passes,         \* the passes run() has invoked so far, in order
    group,          \* bot_username of the group being processed
    count,          \* the local `count` of the group being processed
    ki,             \* index of the next sub-mapping of the group (1..5)
    shape,          \* shape of the verified-users group: "list" / "dict"
    seen,           \* keys already drawn from the dict being iterated
    seenKeys,       \* keys already drawn from the inner dict being iterated
    n,              \* loop iterations made in the current loop
    last,           \* the input consumed by the last step and its outcome
    calls,          \* the store operations issued by the last step
    lim,            \* sizes of the documents: [bots, groups, entries, level]
    recording,      \* whether the inputs are kept for a second run
    run_no,         \* 1 for the first process run, 2 for the second
    tape,           \* the inputs of run 1 not yet replayed (FIFO)
    raised,         \* per run, whether some store write raised
    store1,         \* the store when run 1 ended
    stats1          \* the statistics when run 1 ended

vars == <<store, stats, pc, status, passes, group, count,
          ki, shape, seen, seenKeys, n, last, calls, lim, recording, run_no,
          tape, raised, store1, stats1>>

(***************************************************************************)
(* Bounds of the model.                                                    *)
(***************************************************************************)
MaxBots == 2        \* bot records of bots.json, when migrate_bots is studied
MaxEntries == 2     \* entries of one sub-mapping / users of one group
RunEntries == 1     \* the same, and the bot records, inside a full run()
RunGroups == 1      \* groups of a document inside a full run()
MaxGroups == 2      \* groups of a document, when one pass is studied
MaxDigits == 3      \* digits str() may have to produce

(***************************************************************************)
(* JSON values.  Opaque strings (handles, tokens, modes) are TLA+ strings, *)
(* None standing for an absent key.  Values whose type or text matters     *)
(* (ids that go through int() or str()) are tagged, their text a sequence  *)
(* of characters.                                                          *)
(***************************************************************************)
None == "<None>"
VNull == [t |-> "null", i |-> 0, s |-> <<>>]
VInt(x) == [t |-> "int", i |-> x, s |-> <<>>]
VStr(x) == [t |-> "str", i |-> 0, s |-> x]

\* Python truthiness of an opaque string / of a tagged value.
TruthyS(x) == x # None /\ x # ""
TruthyV(v) == \/ v.t = "int" /\ v.i # 0
              \/ v.t = "str" /\ v.s # <<>>

DigitChar == <<"0", "1", "2", "3", "4", "5", "6", "7", "8", "9">>
IsDigit(c) == \E d \in 1..10 : DigitChar[d] = c
DigitVal(c) == (CHOOSE d \in 1..10 : DigitChar[d] = c) - 1

\* str(x) of a non-negative integer: its decimal digits.
RECURSIVE Digits(_, _)
Digits(x, fuel) ==
    IF x < 10 \/ fuel <= 1 THEN <<DigitChar[(x % 10) + 1]>>
    ELSE Append(Digits(x \div 10, fuel - 1), DigitChar[(x % 10) + 1])

\* str(v): the decimal text of an integer, a string unchanged.
Str(v) == IF v.t = "int"
          THEN (IF v.i < 0 THEN <<"-">> \o Digits(-v.i, MaxDigits)
                ELSE Digits(v.i, MaxDigits))
          ELSE IF v.t = "str" THEN v.s
          ELSE <<"N", "o", "n", "e">>

\* The text without leading and trailing blanks (str.strip).
RECURSIVE LStrip(_)
LStrip(s) == IF s # <<>> /\ Head(s) = " " THEN LStrip(Tail(s)) ELSE s
RECURSIVE RStrip(_)
RStrip(s) == IF s # <<>> /\ s[Len(s)] = " " THEN RStrip(SubSeq(s, 1, Len(s) - 1)) ELSE s
Strip(s) == RStrip(LStrip(s))

\* str.lower, on the letters the model uses.
LowerChar(c) == CASE c = "Y" -> "y" [] c = "E" -> "e" [] c = "S" -> "s"
                  [] c = "N" -> "n" [] OTHER -> c
Lower(s) == [j \in 1..Len(s) |-> LowerChar(s[j])]

RECURSIVE DigitsValue(_, _)
DigitsValue(s, acc) ==
    IF s = <<>> THEN acc ELSE DigitsValue(Tail(s), acc * 10 + DigitVal(Head(s)))

\* int(text): blanks stripped, an optional sign, then one or more digits;
\* anything else raises ValueError (ok = FALSE).
ParseInt(text) ==
    LET t == Strip(text)
        signed == t # <<>> /\ Head(t) \in {"-", "+"}
        body == IF signed THEN Tail(t) ELSE t
        good == body # <<>> /\ \A j \in 1..Len(body) : IsDigit(body[j])
    IN IF ~good THEN [ok |-> FALSE, v |-> 0]
       ELSE [ok |-> TRUE,
             v |-> IF signed /\ Head(t) = "-" THEN -DigitsValue(body, 0)
                   ELSE DigitsValue(body, 0)]

\* int(v) of a tagged value: an integer is itself, a string is parsed.
IntOf(v) == IF v.t = "int" THEN [ok |-> TRUE, v |-> v.i]
            ELSE IF v.t = "str" THEN ParseInt(v.s)
            ELSE [ok |-> FALSE, v |-> 0]

(***************************************************************************)
(* The store collaborator (module `database`).  Reads return, writes may   *)
(* raise; a write that raises leaves the store as it was.                  *)
(***************************************************************************)
Handles == {"a", "b"}

get_bot(st, h) == h \in DOMAIN st.bots

add_bot(st, h, token, owner, welcome_msg) ==
    [st EXCEPT !.bots = (h :> [token |-> token, owner |-> owner,
                               welcome_msg |-> welcome_msg, mode |-> "direct",
                               forum_id |-> VNull]) @@ @]

update_bot_mode(st, h, mode) ==
    IF h \in DOMAIN st.bots THEN [st EXCEPT !.bots[h].mode = mode] ELSE st

update_bot_forum_id(st, h, forum_id) ==
    IF h \in DOMAIN st.bots THEN [st EXCEPT !.bots[h].forum_id = forum_id] ELSE st

\* Upsert: the row (h, kind, source) holds the text of the target afterwards.
set_mapping(st, h, kind, source, target) ==
    [st EXCEPT !.mappings = (<<h, kind, source>> :> Str(target)) @@ @]

is_verified(st, h, user_id) == <<h, user_id>> \in DOMAIN st.verified

add_verified_user(st, h, user_id, user_name, user_username) ==
    [st EXCEPT !.verified = (<<h, user_id>> :> [user_name |-> user_name,
                                               user_username |-> user_username]) @@ @]

is_blacklisted(st, h, user_id) == <<h, user_id>> \in st.blacklist

add_to_blacklist(st, h, user_id) ==
    [st EXCEPT !.blacklist = @ \cup {<<h, user_id>>}]

\* Any store write may raise: whether a call returns, and which of k calls
\* raise.
Oks == BOOLEAN
FailSets(k) == SUBSET (1..k)

\* One store call, as logged in `calls`.
Call(op, h, args, ok) == [op |-> op, h |-> h, args |-> args, ok |-> ok]
WriteOps == {"add_bot", "update_bot_mode", "update_bot_forum_id", "set_mapping",
             "add_verified_user", "add_to_blacklist"}
Writes(cs) == SelectSeq(cs, LAMBDA c : c.op \in WriteOps)
AnyRaised(cs) == \E j \in 1..Len(cs) : ~cs[j].ok

(***************************************************************************)
(* JSONMigrator.__init__                                                   *)
(***************************************************************************)
StatsInit == [bots |-> 0, mappings |-> 0, verified_users |-> 0, blacklist |-> 0,
              errors |-> <<>>]

AddError(s, e) == [s EXCEPT !.errors = Append(@, e)]

(***************************************************************************)
(* Reading the documents.  Feed(inp) lets a step consume the input inp: in *)
(* run 1 any input of the universe, in run 2 the one run 1 consumed at the *)
(* same place.                                                             *)
(***************************************************************************)
Feed(inp) == run_no = 2 => (tape # <<>> /\ Head(tape).in = inp.in /\ Head(tape) = inp)

TapeAfter(inp) == IF run_no = 2 THEN Tail(tape)
                  ELSE IF recording THEN Append(tape, inp)
                  ELSE tape

\* load_json_file: what `filename` holds.  "missing": no such file;
\* "corrupt": json.load raises; "empty": a falsy document ({}, [], null);
\* "wrongtype": a truthy document that is no object; "ok": a non-empty object.
FileStates == {"missing", "corrupt", "empty", "wrongtype", "ok"}

\* The universe a pass draws its document from.  lim.level gives each pass
\* a level: "rich", every value of the model (the pass is studied on its
\* own); "few", some representative values (inside a full run); "one", the
\* document is a single well-formed record for bot "a" (the passes beside
\* the one a double run studies).
PassNames == {"bots", "mappings", "verified_users", "blacklist"}
Pick(pass, rich, few, one) ==
    CASE lim.level[pass] = "rich" -> rich
      [] lim.level[pass] = "few" -> few
      [] OTHER -> one
FileStatesOf(pass) == Pick(pass, FileStates, FileStates, {"ok"})

\* Whether a loop over the document may be exhausted after `consumed`
\* iterations.
MayEnd(pass, consumed) == lim.level[pass] = "one" => consumed >= 1
FileInput(f) == [in |-> "file", state |-> f]
EndInput == [in |-> "end"]

\* The error messages, by the place that appends them.
ErrLoad == "load"
ErrInvalidBot == "invalid_bot"
ErrAddBot == "add_bot"
ErrNoBotMappings == "no_bot_mappings"
ErrSetMapping == "set_mapping"
ErrNoBotVerified == "no_bot_verified"
ErrAddVerified == "add_verified"
ErrNoBotBlacklist == "no_bot_blacklist"
ErrAddBlacklist == "add_blacklist"

\* The frame every step leaves alone.
Fixed == UNCHANGED <<lim, recording, run_no, store1, stats1>>
NoGroup == UNCHANGED <<group, count, ki, shape, seenKeys>>
ResetGroup == /\ group' = None
              /\ count' = 0
              /\ ki' = 1
              /\ shape' = None
              /\ seenKeys' = {}

\* An uncaught exception: the interpreter prints the traceback and exits 1.
Crash == /\ pc' = "exit"
         /\ status' = "crash"

(***************************************************************************)
(* run(): the directory check and the confirmation prompt                  *)
(***************************************************************************)
Answers == { <<"y">>, <<"Y">>, <<"y", "e", "s">>, <<" ", "Y", "E", "S", " ">>,
             <<"n">>, <<>>, <<"y", "e">>, <<"y", " ">>, <<"y", "y">> }

\* A double run is studied on two of the answers.
AnswersOf == IF recording THEN { <<"y">>, <<"n">> } ELSE Answers

ConfirmedStartsWithY(a) == LET t == Lower(Strip(a)) IN t # <<>> /\ t[1] = "y"

Confirmed(a) == Lower(Strip(a)) \in { <<"y">>, <<"y", "e", "s">> }

\* What run() finds when it starts: whether the folder exists (line 312) and
\* the line the operator types at the prompt (line 322).
StartInput(folder_exists, answer) ==
    [in |-> "run", folder_exists |-> folder_exists, answer |-> answer]

RunStart(inp) ==
    /\ pc = "start"
    /\ Feed(inp)
    /\ tape' = TapeAfter(inp)
    /\ last' = inp
    /\ calls' = <<>>
    /\ UNCHANGED <<store, stats, passes, seen, n, raised>>
    /\ NoGroup /\ Fixed

RunNoFolder ==
    \E answer \in AnswersOf :
        /\ RunStart(StartInput(FALSE, answer))
        /\ pc' = "exit"
        /\ status' = "failure"

RunDecline ==
    \E answer \in AnswersOf :
        /\ ~Confirmed(answer)
        /\ RunStart(StartInput(TRUE, answer))
        /\ pc' = "exit"
        /\ status' = "failure"

RunConfirm ==
    \E answer \in AnswersOf :
        /\ Confirmed(answer)
        /\ RunStart(StartInput(TRUE, answer))
        /\ pc' = "bots_load"
        /\ UNCHANGED status

\* main(): sys.exit(0 if success else 1); an uncaught exception exits 1 too.
ExitCode(s) == IF s = "success" THEN 0 ELSE 1

(***************************************************************************)
(* The head of a pass: load_json_file and the `if not data: return`.       *)
(***************************************************************************)
LoadPass(name, here, loop, next) ==
    /\ pc = here
    /\ \E f \in FileStatesOf(name) :
        /\ Feed(FileInput(f))
        /\ tape' = TapeAfter(FileInput(f))
        /\ last' = [in |-> "file", pass |-> name, state |-> f]
        /\ passes' = Append(passes, name)
        /\ calls' = <<>>
        /\ seen' = {}
        /\ n' = 0
        /\ stats' = IF f = "corrupt" THEN AddError(stats, ErrLoad) ELSE stats
        /\ IF f = "ok" THEN pc' = loop /\ UNCHANGED status
           ELSE IF f = "wrongtype" THEN Crash
           ELSE pc' = next /\ UNCHANGED status
    /\ UNCHANGED <<store, raised>>
    /\ NoGroup /\ Fixed

(***************************************************************************)
(* migrate_bots                                                            *)
(***************************************************************************)
OwnerIds == { <<"4", "2">>, <<" ", "7">>, <<"x">> }
BotNames == {None, ""} \cup Handles
Tokens == {None, "", "T"}
Welcomes == {None, "hi"}
Modes == {None, "direct", "forum"}
ForumIds == {VNull, VInt(0), VInt(7)}

\* A bot record of bots.json: an object, or a value that is no object.  The
\* records without a name or a token vary in these two fields only.
BotObjects == [kind : {"obj"}, bot_username : Handles, token : {"T"},
               welcome_msg : Welcomes, mode : Modes, forum_group_id : ForumIds]
              \cup [kind : {"obj"}, bot_username : BotNames, token : Tokens,
                    welcome_msg : {None}, mode : {"forum"}, forum_group_id : {VInt(7)}]
JunkBot == [kind |-> "junk", bot_username |-> None, token |-> None,
            welcome_msg |-> None, mode |-> None, forum_group_id |-> VNull]
BotRecords == BotObjects \cup {JunkBot}
OneBot == [kind |-> "obj", bot_username |-> "a", token |-> "T", welcome_msg |-> None,
           mode |-> "forum", forum_group_id |-> VInt(7)]

OwnerIdsOf(pass) == Pick(pass, OwnerIds, { <<"4", "2">>, <<"x">> }, { <<"4", "2">> })
BotRecordsOf(pass) ==
    Pick(pass, BotRecords,
         {JunkBot} \cup [kind : {"obj"}, bot_username : {"a"}, token : {None, "T"},
                         welcome_msg : {None}, mode : {"forum"},
                         forum_group_id : {VNull, VInt(7)}],
         {OneBot})
\* Whether the document may hold a value of the wrong type in this place.
WrongTypesOf(pass) == Pick(pass, BOOLEAN, BOOLEAN, {FALSE})
HandlesOf(pass) == Pick(pass, Handles, Handles, {"a"})
BotInput(owner_id, bot) == [in |-> "bot", owner_id |-> owner_id, bot |-> bot]

\* dict.get(key, default)
Get(x, default) == IF x = None THEN default ELSE x

InvalidBotNameOnly(bot) == ~TruthyS(bot.bot_username)

\* line 91: the record is rejected
InvalidBot(bot) == ~TruthyS(bot.bot_username) \/ ~TruthyS(bot.token)

\* lines 113, 117: the follow-up updates the record needs
NeedsMode(bot) == TruthyS(Get(bot.mode, "direct")) /\ Get(bot.mode, "direct") # "direct"
NeedsForum(bot) == TruthyV(bot.forum_group_id)

\* The store calls of lines 99-118 for one valid record, `fail` naming the
\* write that raises ("none": none does).  The calls after it are not made.
BotCalls(st, owner_id, bot, fail) ==
    LET h == bot.bot_username
        owner == ParseInt(owner_id)
        c0 == <<Call("get_bot", h, <<>>, TRUE)>>
        c1 == IF get_bot(st, h) \/ ~owner.ok THEN c0
              ELSE Append(c0, Call("add_bot", h,
                                   <<bot.token, owner.v, Get(bot.welcome_msg, "")>>,
                                   fail # "add_bot"))
        c2 == IF Len(c1) = 2 /\ c1[2].ok /\ NeedsMode(bot)
              THEN Append(c1, Call("update_bot_mode", h, <<bot.mode>>,
                                   fail # "update_bot_mode"))
              ELSE c1
        c3 == IF Len(c1) = 2 /\ ~AnyRaised(c2) /\ NeedsForum(bot)
              THEN Append(c2, Call("update_bot_forum_id", h, <<bot.forum_group_id>>,
                                   fail # "update_bot_forum_id"))
              ELSE c2
    IN c3

\* The store after the calls cs (those that raised changed nothing).
RECURSIVE Apply(_, _)
Apply(st, cs) ==
    IF cs = <<>> THEN st
    ELSE LET c == Head(cs)
             st1 == IF ~c.ok THEN st
                    ELSE CASE c.op = "add_bot" ->
                                add_bot(st, c.h, c.args[1], c.args[2], c.args[3])
                           [] c.op = "update_bot_mode" ->
                                update_bot_mode(st, c.h, c.args[1])
                           [] c.op = "update_bot_forum_id" ->
                                update_bot_forum_id(st, c.h, c.args[1])
                           [] c.op = "set_mapping" ->
                                set_mapping(st, c.h, c.args[1], c.args[2], c.args[3])
                           [] c.op = "add_verified_user" ->
                                add_verified_user(st, c.h, c.args[1], c.args[2], c.args[3])
                           [] c.op = "add_to_blacklist" ->
                                add_to_blacklist(st, c.h, c.args[1])
                           [] OTHER -> st
         IN Apply(st1, Tail(cs))

BotFails == {"none", "add_bot", "update_bot_mode", "update_bot_forum_id"}

BotStatsCountsInsert(s, st, owner_id, bot, cs) ==
    LET inserted == \E j \in 1..Len(cs) : cs[j].op = "add_bot" /\ cs[j].ok
        s1 == IF inserted THEN [s EXCEPT !.bots = @ + 1] ELSE s
    IN IF get_bot(st, bot.bot_username) THEN s
       ELSE IF ~ParseInt(owner_id).ok \/ AnyRaised(cs) THEN AddError(s1, ErrAddBot)
       ELSE s1

\* Lines 97-126: what one valid record does to the statistics.
BotStats(s, st, owner_id, bot, cs) ==
    IF get_bot(st, bot.bot_username) THEN s
    ELSE IF ~ParseInt(owner_id).ok \/ AnyRaised(cs) THEN AddError(s, ErrAddBot)
    ELSE [s EXCEPT !.bots = @ + 1]

\* One iteration of the loops of lines 81-126.
MigrateBotsRecord ==
    /\ pc = "bots"
    /\ n < lim.bots
    /\ \E owner_id \in OwnerIdsOf("bots"), bot \in BotRecordsOf("bots"),
          fail \in BotFails :
        LET inp == BotInput(owner_id, bot)
            cs == BotCalls(store, owner_id, bot, fail)
        IN /\ Feed(inp)
           /\ tape' = TapeAfter(inp)
           /\ last' = inp
           /\ n' = n + 1
           /\ IF bot.kind = "junk"
              THEN \* bot.get: AttributeError, outside the try
                   /\ fail = "none"
                   /\ Crash
                   /\ calls' = <<>>
                   /\ UNCHANGED <<store, stats, raised>>
              ELSE IF InvalidBot(bot)
              THEN /\ fail = "none"
                   /\ stats' = AddError(stats, ErrInvalidBot)
                   /\ calls' = <<>>
                   /\ UNCHANGED <<store, pc, status, raised>>
              ELSE \* the failing write must be one the record issues
                   /\ fail = "none" \/ \E j \in 1..Len(cs) : cs[j].op = fail
                   /\ calls' = cs
                   /\ store' = Apply(store, cs)
                   /\ stats' = BotStats(stats, store, owner_id, bot, cs)
                   /\ raised' = [raised EXCEPT ![run_no] = @ \/ AnyRaised(cs)]
                   /\ UNCHANGED <<pc, status>>
    /\ UNCHANGED <<passes, seen>>
    /\ NoGroup /\ Fixed

\* owner_data is no object (owner_data.get raises), or its "bots" is no list
\* of objects: AttributeError / TypeError outside the try.
MigrateBotsOwnerJunk ==
    /\ pc = "bots"
    /\ n < lim.bots
    /\ TRUE \in WrongTypesOf("bots")
    /\ Feed([in |-> "owner_junk"])
    /\ tape' = TapeAfter([in |-> "owner_junk"])
    /\ last' = [in |-> "owner_junk"]
    /\ n' = n + 1
    /\ calls' = <<>>
    /\ Crash
    /\ UNCHANGED <<store, stats, passes, seen, raised>>
    /\ NoGroup /\ Fixed

\* The loops are exhausted (line 128).
MigrateBotsEnd ==
    /\ pc = "bots"
    /\ MayEnd("bots", n)
    /\ Feed(EndInput)
    /\ tape' = TapeAfter(EndInput)
    /\ last' = EndInput
    /\ calls' = <<>>
    /\ pc' = "mappings_load"
    /\ n' = 0
    /\ UNCHANGED <<store, stats, status, passes, seen, raised>>
    /\ NoGroup /\ Fixed

MigrateBotsLoad == LoadPass("bots", "bots_load", "bots", "mappings_load")

migrate_bots == MigrateBotsLoad \/ MigrateBotsRecord \/ MigrateBotsOwnerJunk
                \/ MigrateBotsEnd

(***************************************************************************)
(* The bot-existence gate shared by the three dependent passes             *)
(* (lines 140-148, 217-225, 276-284).                                      *)
(***************************************************************************)
GroupInput(h, wrongtype) == [in |-> "group", h |-> h, wrongtype |-> wrongtype]

SkipGroupSilent(h, err) ==
    /\ ~get_bot(store, h)
    /\ UNCHANGED <<store, stats, pc, status, group, count, ki, shape, seenKeys, n>>

\* The group of a handle the store does not know: one error, next group.
SkipGroup(h, err) ==
    /\ ~get_bot(store, h)
    /\ stats' = AddError(stats, err)
    /\ UNCHANGED <<store, pc, status, group, count, ki, shape, seenKeys, n>>

\* The end of a pass's outer loop.
EndPass(pass, here, next) ==
    /\ pc = here
    /\ MayEnd(pass, Cardinality(seen))
    /\ Feed(EndInput)
    /\ tape' = TapeAfter(EndInput)
    /\ last' = EndInput
    /\ calls' = <<>>
    /\ pc' = next
    /\ seen' = {}
    /\ n' = 0
    /\ ResetGroup      \* the pass returns: its locals are gone
    /\ UNCHANGED <<store, stats, status, passes, raised>>
    /\ Fixed

(***************************************************************************)
(* migrate_mappings                                                        *)
(***************************************************************************)
Kinds == <<"direct", "topic", "user_forward", "forward_user", "owner_user">>

LegacyKeySingular(kind) == CASE kind = "direct" -> "direct"
                             [] kind = "topic" -> "topic"
                             [] kind = "user_forward" -> "user_to_forward"
                             [] kind = "forward_user" -> "forward_to_user"
                             [] kind = "owner_user" -> "owner_to_user"

\* The key of msg_map.json's group object that holds the sub-mapping written
\* under `kind` (lines 153, 163, 173, 183, 193).
LegacyKey(kind) == CASE kind = "direct" -> "direct"
                     [] kind = "topic" -> "topics"
                     [] kind = "user_forward" -> "user_to_forward"
                     [] kind = "forward_user" -> "forward_to_user"
                     [] kind = "owner_user" -> "owner_to_user"

\* The target as the migrator hands it to set_mapping: str() for a topic
\* (line 166), as it is for the other kinds.
MappingArg(kind, target) == IF kind = "topic" THEN VStr(Str(target)) ELSE target

Sources == {"100", "101"}
Targets == {VInt(200), VStr(<<"2", "0", "0">>), VStr(<<"x">>)}
Entries == Sources \X Targets
EntriesOf(pass) == Pick(pass, Entries, {"100"} \X {VInt(200), VStr(<<"x">>)}, {})

\* The sub-mappings of at most k entries: sequences of entries with distinct
\* sources (a JSON object, in document order).
RECURSIVE SeqsUpTo(_, _)
SeqsUpTo(S, k) ==
    IF k = 0 THEN {<<>>}
    ELSE LET shorter == SeqsUpTo(S, k - 1)
         IN shorter \cup {Append(q, e) : q \in {r \in shorter : Len(r) = k - 1}, e \in S}

DistinctFirst(q) == \A i, j \in 1..Len(q) : i # j => q[i][1] # q[j][1]

SubInput(key, sub) == [in |-> "sub", key |-> key, sub |-> sub]

SubMaps(E, k) == {[kind |-> "obj", entries |-> q] :
                     q \in {r \in SeqsUpTo(E, k) : DistinctFirst(r)}}
JunkSub == [kind |-> "junk", entries |-> <<>>]

\* What a group object may hold for `kind`: a sub-mapping under the key the
\* migrator reads, or one under the name of the kind itself (the same key
\* for "direct"), or a value that is no object under the key it reads.
SubInputs(pass, kind, k) ==
    IF lim.level[pass] = "one"
    THEN {SubInput(LegacyKey(kind),
                   [kind |-> "obj",
                    entries |-> IF kind = "direct" THEN <<<<"100", VInt(200)>>>> ELSE <<>>])}
    ELSE {SubInput(key, sub) : key \in {LegacyKey(kind), kind},
                               sub \in SubMaps(EntriesOf(pass), k)}
         \cup {SubInput(LegacyKey(kind), JunkSub) : w \in WrongTypesOf(pass) \ {FALSE}}

\* The set_mapping calls of one sub-mapping, those at the indices of `fails`
\* raising.
MappingCalls(h, kind, entries, fails) ==
    [j \in 1..Len(entries) |->
        Call("set_mapping", h, <<kind, entries[j][1], MappingArg(kind, entries[j][2])>>,
             j \notin fails)]

RECURSIVE Times(_, _)
Times(e, k) == IF k = 0 THEN <<>> ELSE <<e>> \o Times(e, k - 1)

AddErrors(s, e, k) == [s EXCEPT !.errors = @ \o Times(e, k)]

NumOk(cs) == Cardinality({j \in 1..Len(cs) : cs[j].ok})

MigrateMappingsLoad == LoadPass("mappings", "mappings_load", "mappings", "verified_load")

\* Lines 140-150: the next group of msg_map.json.
MigrateMappingsGroup ==
    /\ pc = "mappings"
    /\ Cardinality(seen) < lim.groups
    /\ \E h \in HandlesOf("mappings") \ seen, wrongtype \in WrongTypesOf("mappings") :
        LET inp == GroupInput(h, wrongtype)
        IN /\ Feed(inp)
           /\ tape' = TapeAfter(inp)
           /\ last' = [in |-> inp.in, h |-> h, skipped |-> ~get_bot(store, h)]
           /\ seen' = seen \cup {h}
           /\ calls' = <<Call("get_bot", h, <<>>, TRUE)>>
           /\ \/ SkipGroup(h, ErrNoBotMappings)
              \/ /\ get_bot(store, h)
                 /\ group' = h
                 /\ count' = 0
                 /\ ki' = 1
                 /\ n' = 0
                 /\ IF wrongtype
                    THEN Crash      \* mappings.get: AttributeError
                    ELSE pc' = "mappings_sub" /\ UNCHANGED status
                 /\ UNCHANGED <<store, stats, shape, seenKeys>>
    /\ UNCHANGED <<passes, raised>>
    /\ Fixed

\* One of the five blocks of lines 152-200, and after the fifth the group's
\* count (line 203).  The group object holds `sub` under `key`; n counts the
\* entries of the group drawn so far, a group holding lim.entries at most.
MigrateMappingsSub ==
    /\ pc = "mappings_sub"
    /\ \E inp \in SubInputs("mappings", Kinds[ki], lim.entries - n) :
        LET kind == Kinds[ki]
            key == inp.key
            sub == inp.sub
            read == IF key = LegacyKey(kind) THEN sub
                    ELSE [kind |-> "obj", entries |-> <<>>]
        IN /\ Feed(inp)
           /\ tape' = TapeAfter(inp)
           /\ last' = [in |-> "sub", key |-> key, sub |-> sub, k |-> kind, h |-> group]
           /\ IF read.kind = "junk"
              THEN \* .items(): AttributeError, outside the try
                   /\ Crash
                   /\ calls' = <<>>
                   /\ UNCHANGED <<store, stats, count, ki, raised, n>>
              ELSE \E fails \in FailSets(Len(read.entries)) :
                   LET cs == MappingCalls(group, kind, read.entries, fails)
                       total == count + NumOk(cs)
                       s1 == AddErrors(stats, ErrSetMapping, Len(cs) - NumOk(cs))
                   IN /\ calls' = cs
                      /\ n' = n + Len(sub.entries)
                      /\ store' = Apply(store, cs)
                      /\ raised' = [raised EXCEPT ![run_no] = @ \/ AnyRaised(cs)]
                      /\ count' = total
                      /\ IF ki < Len(Kinds)
                         THEN /\ ki' = ki + 1
                              /\ stats' = s1
                              /\ UNCHANGED <<pc, status>>
                         ELSE /\ ki' = 1
                              /\ stats' = [s1 EXCEPT !.mappings = @ + total]
                              /\ pc' = "mappings"
                              /\ UNCHANGED status
    /\ UNCHANGED <<passes, group, shape, seen, seenKeys>>
    /\ Fixed

MigrateMappingsEnd == EndPass("mappings", "mappings", "verified_load")

migrate_mappings == MigrateMappingsLoad \/ MigrateMappingsGroup \/ MigrateMappingsSub
                    \/ MigrateMappingsEnd

(***************************************************************************)
(* migrate_verified_users                                                  *)
(***************************************************************************)
\* The raw ids of a list, the keys of a detail mapping, the detail objects.
RawIds == {VInt(1), VInt(2), VStr(<<"1">>), VStr(<<"x">>)}
IdTexts == { <<"1">>, <<"2">>, <<"0", "1">>, <<"x">> }
UserInfos == [kind : {"obj"}, user_name : {None, "N"}, user_username : {None, "U"}]
             \cup {[kind |-> "junk", user_name |-> None, user_username |-> None]}
Shapes == {"list", "dict", "other"}
RawIdsOf(pass) == Pick(pass, RawIds, {VInt(1), VInt(2)}, {VInt(2)})
IdTextsOf(pass) == Pick(pass, IdTexts, { <<"1">>, <<"x">> }, { <<"2">> })
PlainInfo == [kind |-> "obj", user_name |-> None, user_username |-> None]
UserInfosOf(pass) == Pick(pass, UserInfos,
                          {PlainInfo, [PlainInfo EXCEPT !.kind = "junk"]}, {PlainInfo})
ShapesOf(pass) == Pick(pass, Shapes, Shapes, {"list"})

VerifiedGroupInput(h, shp) == [in |-> "vgroup", h |-> h, shape |-> shp]
ListUserInput(user_id) == [in |-> "list_user", user_id |-> user_id]
DictUserInput(key, info) == [in |-> "dict_user", key |-> key, info |-> info]

ListUserCallsNoCheck(st, h, user_id, ok) ==
    <<Call("add_verified_user", h, <<user_id, "", "">>, ok)>>

\* Lines 232-238: the calls for one id of the list form, passed as it is.
ListUserCalls(st, h, user_id, ok) ==
    IF is_verified(st, h, user_id)
    THEN <<Call("is_verified", h, <<user_id>>, TRUE)>>
    ELSE <<Call("is_verified", h, <<user_id>>, TRUE),
           Call("add_verified_user", h, <<user_id, "", "">>, ok)>>

\* Lines 246-255: the calls for one item of the mapping form.  int(key)
\* or user_info.get may raise before any call is made.
DictUserCalls(st, h, key, info, ok) ==
    LET id == ParseInt(key)
    IN IF ~id.ok \/ info.kind = "junk" THEN <<>>
       ELSE IF is_verified(st, h, VInt(id.v))
       THEN <<Call("is_verified", h, <<VInt(id.v)>>, TRUE)>>
       ELSE <<Call("is_verified", h, <<VInt(id.v)>>, TRUE),
              Call("add_verified_user", h,
                   <<VInt(id.v), Get(info.user_name, ""), Get(info.user_username, "")>>,
                   ok)>>

\* Whether the try block of an item was left by an exception.
DictUserFailed(key, info, cs) ==
    ~ParseInt(key).ok \/ info.kind = "junk" \/ AnyRaised(cs)

\* The local count after the calls cs: one more per successful insert.
CountAfter(c, cs) == c + NumOk(Writes(cs))

MigrateVerifiedLoad == LoadPass("verified_users", "verified_load", "verified", "blacklist_load")

\* Lines 217-230, 244: the next group of verified_users.json.
MigrateVerifiedGroup ==
    /\ pc = "verified"
    /\ Cardinality(seen) < lim.groups
    /\ \E h \in HandlesOf("verified_users") \ seen, shp \in ShapesOf("verified_users") :
        LET inp == VerifiedGroupInput(h, shp)
        IN /\ Feed(inp)
           /\ tape' = TapeAfter(inp)
           /\ last' = [in |-> inp.in, h |-> h, skipped |-> ~get_bot(store, h)]
           /\ seen' = seen \cup {h}
           /\ calls' = <<Call("get_bot", h, <<>>, TRUE)>>
           /\ \/ SkipGroup(h, ErrNoBotVerified)
              \/ /\ get_bot(store, h)
                 /\ group' = h
                 /\ count' = 0
                 /\ shape' = shp
                 /\ seenKeys' = {}
                 /\ n' = 0
                 \* neither a list nor a dict: no branch runs, count stays 0
                 /\ pc' = IF shp = "other" THEN "verified" ELSE "verified_users"
                 /\ UNCHANGED <<store, stats, status, ki>>
    /\ UNCHANGED <<passes, raised>>
    /\ Fixed

\* Lines 231-241: one id of a list.
MigrateVerifiedListUser ==
    /\ pc = "verified_users"
    /\ shape = "list"
    /\ n < lim.entries
    /\ \E user_id \in RawIdsOf("verified_users"), ok \in Oks :
        LET inp == ListUserInput(user_id)
            cs == ListUserCalls(store, group, user_id, ok)
        IN /\ Feed(inp)
           /\ tape' = TapeAfter(inp)
           /\ last' = [in |-> "list_user", user_id |-> user_id, h |-> group]
           /\ ok \/ Writes(cs) # <<>>
           /\ calls' = cs
           /\ store' = Apply(store, cs)
           /\ raised' = [raised EXCEPT ![run_no] = @ \/ AnyRaised(cs)]
           /\ count' = CountAfter(count, cs)
           /\ stats' = IF AnyRaised(cs) THEN AddError(stats, ErrAddVerified) ELSE stats
    /\ n' = n + 1
    /\ UNCHANGED <<pc, status, passes, group, ki, shape, seen, seenKeys>>
    /\ Fixed

\* Lines 245-259: one item of a detail mapping.
MigrateVerifiedDictUser ==
    /\ pc = "verified_users"
    /\ shape = "dict"
    /\ n < lim.entries
    /\ \E key \in IdTextsOf("verified_users") \ seenKeys,
          info \in UserInfosOf("verified_users"), ok \in Oks :
        LET inp == DictUserInput(key, info)
            cs == DictUserCalls(store, group, key, info, ok)
        IN /\ Feed(inp)
           /\ tape' = TapeAfter(inp)
           /\ last' = [in |-> "dict_user", key |-> key, info |-> info, h |-> group]
           /\ ok \/ Writes(cs) # <<>>
           /\ seenKeys' = seenKeys \cup {key}
           /\ calls' = cs
           /\ store' = Apply(store, cs)
           /\ raised' = [raised EXCEPT ![run_no] = @ \/ AnyRaised(cs)]
           /\ count' = CountAfter(count, cs)
           /\ stats' = IF DictUserFailed(key, info, cs)
                       THEN AddError(stats, ErrAddVerified) ELSE stats
    /\ n' = n + 1
    /\ UNCHANGED <<pc, status, passes, group, ki, shape, seen>>
    /\ Fixed

\* Lines 261-262: the group's users are exhausted.
MigrateVerifiedGroupEnd ==
    /\ pc = "verified_users"
    /\ MayEnd("verified_users", n)
    /\ Feed(EndInput)
    /\ tape' = TapeAfter(EndInput)
    /\ last' = [in |-> "group_end", h |-> group]
    /\ calls' = <<>>
    /\ stats' = [stats EXCEPT !.verified_users = @ + count]
    /\ pc' = "verified"
    /\ UNCHANGED <<store, status, passes, group, count, ki, shape, seen, seenKeys, n, raised>>
    /\ Fixed

MigrateVerifiedEnd == EndPass("verified_users", "verified", "blacklist_load")

migrate_verified_users ==
    MigrateVerifiedLoad \/ MigrateVerifiedGroup \/ MigrateVerifiedListUser
    \/ MigrateVerifiedDictUser \/ MigrateVerifiedGroupEnd \/ MigrateVerifiedEnd

(***************************************************************************)
(* migrate_blacklist                                                       *)
(***************************************************************************)
BlacklistUserInput(user_id) == [in |-> "bl_user", user_id |-> user_id]

BlacklistCallsNoCheck(st, h, user_id, ok) ==
    <<Call("add_to_blacklist", h, <<user_id>>, ok)>>

\* Lines 288-294: the calls for one id, passed as it is.
BlacklistCalls(st, h, user_id, ok) ==
    IF is_blacklisted(st, h, user_id)
    THEN <<Call("is_blacklisted", h, <<user_id>>, TRUE)>>
    ELSE <<Call("is_blacklisted", h, <<user_id>>, TRUE),
           Call("add_to_blacklist", h, <<user_id>>, ok)>>

MigrateBlacklistLoad == LoadPass("blacklist", "blacklist_load", "blacklist", "report")

\* Lines 276-287: the next group of blacklist.json.
MigrateBlacklistGroup ==
    /\ pc = "blacklist"
    /\ Cardinality(seen) < lim.groups
    /\ \E h \in HandlesOf("blacklist") \ seen, wrongtype \in WrongTypesOf("blacklist") :
        LET inp == GroupInput(h, wrongtype)
        IN /\ Feed(inp)
           /\ tape' = TapeAfter(inp)
           /\ last' = [in |-> inp.in, h |-> h, skipped |-> ~get_bot(store, h)]
           /\ seen' = seen \cup {h}
           /\ calls' = <<Call("get_bot", h, <<>>, TRUE)>>
           /\ \/ SkipGroup(h, ErrNoBotBlacklist)
              \/ /\ get_bot(store, h)
                 /\ group' = h
                 /\ count' = 0
                 /\ n' = 0
                 /\ IF wrongtype
                    THEN Crash      \* for user_id in <a number>: TypeError
                    ELSE pc' = "blacklist_users" /\ UNCHANGED status
                 /\ UNCHANGED <<store, stats, ki, shape, seenKeys>>
    /\ UNCHANGED <<passes, raised>>
    /\ Fixed

\* Lines 287-297: one id of the group.
MigrateBlacklistUser ==
    /\ pc = "blacklist_users"
    /\ n < lim.entries
    /\ \E user_id \in RawIdsOf("blacklist"), ok \in Oks :
        LET inp == BlacklistUserInput(user_id)
            cs == BlacklistCalls(store, group, user_id, ok)
        IN /\ Feed(inp)
           /\ tape' = TapeAfter(inp)
           /\ last' = [in |-> "bl_user", user_id |-> user_id, h |-> group]
           /\ ok \/ Writes(cs) # <<>>
           /\ calls' = cs
           /\ store' = Apply(store, cs)
           /\ raised' = [raised EXCEPT ![run_no] = @ \/ AnyRaised(cs)]
           /\ count' = CountAfter(count, cs)
           /\ stats' = IF AnyRaised(cs) THEN AddError(stats, ErrAddBlacklist) ELSE stats
    /\ n' = n + 1
    /\ UNCHANGED <<pc, status, passes, group, ki, shape, seen, seenKeys>>
    /\ Fixed

\* Lines 299-300: the group's ids are exhausted.
MigrateBlacklistGroupEnd ==
    /\ pc = "blacklist_users"
    /\ MayEnd("blacklist", n)
    /\ Feed(EndInput)
    /\ tape' = TapeAfter(EndInput)
    /\ last' = [in |-> "group_end", h |-> group]
    /\ calls' = <<>>
    /\ stats' = [stats EXCEPT !.blacklist = @ + count]
    /\ pc' = "blacklist"
    /\ UNCHANGED <<store, status, passes, group, count, ki, shape, seen, seenKeys, n, raised>>
    /\ Fixed

MigrateBlacklistEnd == EndPass("blacklist", "blacklist", "report")

migrate_blacklist ==
    MigrateBlacklistLoad \/ MigrateBlacklistGroup \/ MigrateBlacklistUser
    \/ MigrateBlacklistGroupEnd \/ MigrateBlacklistEnd

(***************************************************************************)
(* run(): the report and the return (lines 344-369)                        *)
(***************************************************************************)
Report ==
    /\ pc = "report"
    /\ pc' = "exit"
    /\ status' = "success"
    /\ last' = [in |-> "report"]
    /\ calls' = <<>>
    /\ UNCHANGED <<store, stats, passes, seen, n, tape, raised>>
    /\ NoGroup /\ Fixed

run == RunNoFolder \/ RunDecline \/ RunConfirm \/ migrate_bots \/ migrate_mappings
       \/ migrate_verified_users \/ migrate_blacklist \/ Report

(***************************************************************************)
(* The operator starts the tool a second time on the same folder, giving   *)
(* the same answer: a new process, a new JSONMigrator.                     *)
(***************************************************************************)
Rerun ==
    /\ pc = "exit"
    /\ run_no = 1
    /\ recording
    /\ run_no' = 2
    /\ store1' = store
    /\ stats1' = stats
    /\ stats' = StatsInit
    /\ pc' = "start"
    /\ status' = "running"
    /\ passes' = <<>>
    /\ group' = None
    /\ count' = 0
    /\ ki' = 1
    /\ shape' = None
    /\ seen' = {}
    /\ seenKeys' = {}
    /\ n' = 0
    /\ last' = [in |-> "start"]
    /\ calls' = <<>>
    /\ UNCHANGED <<store, lim, recording, tape, raised>>

(***************************************************************************)
(* Initial states                                                          *)
(***************************************************************************)
EmptyStore == [bots |-> <<>>, mappings |-> <<>>, verified |-> <<>>, blacklist |-> {}]

OldBot == [token |-> "T0", owner |-> 1, welcome_msg |-> "", mode |-> "direct",
           forum_id |-> VNull]

\* A store that knows the bots of B; with `rows`, each of them owns one
\* mapping, one verified user and one blacklist entry already.
StoreWith(B, rows) ==
    [bots |-> [h \in B |-> OldBot],
     mappings |-> IF rows THEN [k \in {<<h, "direct", "100">> : h \in B} |-> <<"9">>]
                  ELSE <<>>,
     verified |-> IF rows THEN [k \in {<<h, VInt(1)>> : h \in B} |->
                                   [user_name |-> "old", user_username |-> "old"]]
                  ELSE <<>>,
     blacklist |-> IF rows THEN {<<h, VInt(1)>> : h \in B} ELSE {}]

InitStores == {StoreWith(B, rows) : B \in SUBSET Handles, rows \in BOOLEAN}

InitMigrator ==
    /\ stats = StatsInit
    /\ status = "running"
    /\ passes = <<>>
    /\ group = None
    /\ count = 0
    /\ ki = 1
    /\ shape = None
    /\ seen = {}
    /\ seenKeys = {}
    /\ n = 0
    /\ last = [in |-> "start"]
    /\ calls = <<>>
    /\ run_no = 1
    /\ tape = <<>>
    /\ raised = [r \in 1..2 |-> FALSE]
    /\ store1 = EmptyStore
    /\ stats1 = StatsInit

AllAt(level) == [p \in PassNames |-> level]

\* The tool is started: main() builds the migrator and calls run().
Init ==
    /\ store \in InitStores
    /\ pc = "start"
    /\ lim = [bots |-> RunEntries, groups |-> RunGroups, entries |-> RunEntries,
              level |-> AllAt("few")]
    /\ recording = FALSE
    /\ InitMigrator

Next == run

Spec == Init /\ [][Next]_vars

\* One pass called on its own, on a new migrator, its document drawn from
\* the full universe.
InitPass(start, groups) ==
    /\ store \in InitStores
    /\ pc = start
    /\ lim = [bots |-> MaxBots, groups |-> groups, entries |-> MaxEntries,
              level |-> AllAt("rich")]
    /\ recording = FALSE
    /\ InitMigrator

InitBots == InitPass("bots_load", MaxGroups)
SpecBots == InitBots /\ [][migrate_bots]_vars

InitMappings == InitPass("mappings_load", RunGroups)
SpecMappings == InitMappings /\ [][migrate_mappings]_vars

InitVerified == InitPass("verified_load", MaxGroups)
SpecVerified == InitVerified /\ [][migrate_verified_users]_vars

\* The three passes behind the bot-existence gate, one after the other, on
\* documents of several groups.
InitGated ==
    /\ store \in InitStores
    /\ pc = "mappings_load"
    /\ lim = [bots |-> RunEntries, groups |-> MaxGroups, entries |-> RunEntries,
              level |-> AllAt("few")]
    /\ recording = FALSE
    /\ InitMigrator

NextGated == migrate_mappings \/ migrate_verified_users \/ migrate_blacklist

SpecGated == InitGated /\ [][NextGated]_vars

\* The tool run twice on the same folder.  One document at a time is drawn
\* from the representative universe, the three others hold one record.
InitTwice ==
    /\ store \in InitStores
    /\ pc = "start"
    /\ \E focus \in PassNames :
        lim = [bots |-> RunEntries, groups |-> RunGroups, entries |-> RunEntries,
               level |-> [p \in PassNames |-> IF p = focus THEN "few" ELSE "one"]]
    /\ recording = TRUE
    /\ InitMigrator

NextTwice == run \/ Rerun

SpecTwice == InitTwice /\ [][NextTwice]_vars

(***************************************************************************)
(* Properties                                                              *)
(***************************************************************************)
AllPasses == <<"bots", "mappings", "verified_users", "blacklist">>
Counters(s) == <<s.bots, s.mappings, s.verified_users, s.blacklist>>
Blank(x) == x \in {None, ""}
Running == status' = "running"

\* The lines that say yes: y or yes, in either case, blanks around them.
YesAnswers == { <<"y">>, <<"Y">>, <<"y", "e", "s">>, <<" ", "Y", "E", "S", " ">>,
                <<"y", " ">> }

\* C2: when the folder is missing or the operator does not answer y/yes,
\* run() ends in failure (exit status 1) having invoked no pass, issued no
\* store operation, and left the store, the counters and the error list as
\* they were.
C2_FatalAbortNoWrites ==
    [][(pc = "start" /\ last'.in = "run"
        /\ (~last'.folder_exists \/ last'.answer \notin YesAnswers))
       => /\ pc' = "exit"
          /\ status' = "failure"
          /\ ExitCode(status') = 1
          /\ passes' = <<>>
          /\ calls' = <<>>
          /\ store' = store
          /\ stats' = stats]_vars

C2_Witness ==
    /\ status = "failure"
    /\ last.in = "run"
    /\ last.folder_exists
    /\ last.answer = <<"y", "e">>
    /\ DOMAIN store.bots = Handles
    /\ DOMAIN store.mappings # {}

\* The integer an owner id of the model stands for, -1 when it is none.
OwnerOracle(o) == CASE o = <<"4", "2">> -> 42
                    [] o = <<" ", "7">> -> 7
                    [] OTHER -> -1

BotStep == pc = "bots" /\ last'.in = "bot" /\ last'.bot.kind = "obj"

\* C4: a bot record whose bot_username or token is missing or empty causes
\* no store mutation and no counter change, appends exactly one error, and
\* the loop goes on to the next record.
C4_InvalidBotRecord ==
    [][(BotStep /\ (Blank(last'.bot.bot_username) \/ Blank(last'.bot.token)))
       => /\ store' = store
          /\ Writes(calls') = <<>>
          /\ Counters(stats') = Counters(stats)
          /\ stats'.errors = Append(stats.errors, ErrInvalidBot)
          /\ pc' = "bots"
          /\ Running]_vars

\* An invalid record (no token) was rejected and the record after it inserted.
C4_Witness ==
    /\ pc = "bots"
    /\ n = 2
    /\ stats.errors = <<ErrInvalidBot>>
    /\ stats.bots = 1
    /\ last.in = "bot"
    /\ last.bot.bot_username = "b"
    /\ "b" \in DOMAIN store.bots

HasOk(cs, op) == \E j \in 1..Len(cs) : cs[j].op = op /\ cs[j].ok

\* C10: for a valid record whose handle is new, the bot counter grows by one
\* exactly when the insert and every required follow-up update succeeded;
\* when the owner coercion, the insert or an update raises, one error is
\* appended and the counter stays; the loop goes on.  A record whose handle
\* exists changes nothing.
C10_BotCounter ==
    [][(BotStep /\ ~Blank(last'.bot.bot_username) /\ ~Blank(last'.bot.token))
       => LET b == last'.bot
              h == b.bot_username
              owner == OwnerOracle(last'.owner_id)
              ws == Writes(calls')
              needMode == b.mode \notin {None, "direct"}
              needForum == b.forum_group_id.t = "int" /\ b.forum_group_id.i # 0
              allOk == /\ HasOk(ws, "add_bot")
                       /\ needMode => HasOk(ws, "update_bot_mode")
                       /\ needForum => HasOk(ws, "update_bot_forum_id")
              failed == owner < 0 \/ AnyRaised(ws)
          IN /\ pc' = "bots"
             /\ Running
             /\ IF h \in DOMAIN store.bots
                THEN store' = store /\ stats' = stats /\ ws = <<>>
                ELSE /\ (stats'.bots = stats.bots + 1) <=> allOk
                     /\ stats'.bots \in {stats.bots, stats.bots + 1}
                     /\ stats'.mappings = stats.mappings
                     /\ stats'.verified_users = stats.verified_users
                     /\ stats'.blacklist = stats.blacklist
                     /\ failed => /\ stats'.bots = stats.bots
                                  /\ stats'.errors = Append(stats.errors, ErrAddBot)
                     /\ ~failed =>
                          /\ allOk
                          /\ stats'.errors = stats.errors
                          /\ store'.bots[h] =
                               [token |-> b.token, owner |-> owner,
                                welcome_msg |-> IF b.welcome_msg = None THEN ""
                                                ELSE b.welcome_msg,
                                mode |-> IF needMode THEN b.mode ELSE "direct",
                                forum_id |-> IF needForum THEN b.forum_group_id
                                             ELSE VNull]]_vars

\* The forum-id update of the first record raised after its insert: the bot
\* is stored, not counted; the second record was inserted and counted.
C10_Witness ==
    /\ pc = "bots"
    /\ n = 2
    /\ stats.bots = 1
    /\ stats.errors = <<ErrAddBot>>
    /\ DOMAIN store.bots = {"a", "b"}
    /\ store.bots["a"].mode = "forum"
    /\ store.bots["a"].forum_id = VNull
    /\ store.bots["a"].owner = 7
    /\ last.in = "bot"
    /\ last.bot.bot_username = "b"
    /\ HasOk(calls, "update_bot_forum_id")

GateStep == pc \in {"mappings", "verified", "blacklist"} /\ last'.in \in {"group", "vgroup"}

GateError(p) == CASE p = "mappings" -> ErrNoBotMappings
                  [] p = "verified" -> ErrNoBotVerified
                  [] OTHER -> ErrNoBotBlacklist

\* C3: in the three dependent passes, a group whose bot is not in the store
\* issues no store write, changes no counter, appends exactly one error, and
\* the loop goes on to the following groups.
C3_BotExistenceGate ==
    [][(GateStep /\ last'.h \notin DOMAIN store.bots)
       => /\ store' = store
          /\ Writes(calls') = <<>>
          /\ Counters(stats') = Counters(stats)
          /\ stats'.errors = Append(stats.errors, GateError(pc))
          /\ last'.skipped
          /\ pc' = pc
          /\ Running]_vars

\* A blacklist group was skipped, then the group after it was migrated.
C3_Witness ==
    /\ pc = "blacklist"
    /\ last.in = "group_end"
    /\ stats.blacklist = 1
    /\ Len(stats.errors) >= 2
    /\ stats.errors[Len(stats.errors)] = ErrNoBotBlacklist
    /\ ErrNoBotMappings \in {stats.errors[j] : j \in 1..Len(stats.errors)}

\* C8: once the operator has confirmed, run() invokes all four passes,
\* reaches the report and returns success, whatever the documents hold and
\* whichever store operations raise.
C8_NoAbort ==
    (pc = "exit" /\ passes # <<>>)
    => /\ status = "success"
       /\ ExitCode(status) = 0
       /\ passes = AllPasses

IsPrefix(p, q) == Len(p) <= Len(q) /\ \A j \in 1..Len(p) : p[j] = q[j]

\* C7: in every confirmed run the four passes execute once each in the order
\* bots, mappings, verified_users, blacklist; a group that a later pass skips
\* is never the group of a bot the store holds, so the groups of a bot
\* inserted by the bots pass are migrated.
C7_PassOrder ==
    /\ IsPrefix(passes, AllPasses)
    /\ (pc = "exit" /\ status # "failure") => passes = AllPasses
    /\ (last.in \in {"group", "vgroup"} /\ last.skipped) => last.h \notin DOMAIN store.bots

RowsKept(old, new) == \A k \in DOMAIN old : k \in DOMAIN new /\ new[k] = old[k]

\* The bot rows stay as they are; mode and forum id are set only right after
\* the insert of the same bot succeeded.
BotsWriteOnce ==
    /\ RowsKept(store.bots, store'.bots)
    /\ \A j \in 1..Len(calls') :
         calls'[j].op \in {"update_bot_mode", "update_bot_forum_id"}
         => /\ calls'[j].h \notin DOMAIN store.bots
            /\ \E i \in 1..(j - 1) : /\ calls'[i].op = "add_bot"
                                     /\ calls'[i].ok
                                     /\ calls'[i].h = calls'[j].h

\* C9 as stated: a run never deletes a row and never changes the value of a
\* mapping, verified-user or blacklist row that exists; of existing rows only
\* the mode and forum id of a bot inserted by this run are updated.
C9_WriteOnceRows ==
    [][/\ RowsKept(store.mappings, store'.mappings)
       /\ RowsKept(store.verified, store'.verified)
       /\ store.blacklist \subseteq store'.blacklist
       /\ BotsWriteOnce]_vars

\* The string form of the targets and ids of the model.
StrOracle(v) == CASE v = VInt(200) -> <<"2", "0", "0">>
                  [] v = VInt(201) -> <<"2", "0", "1">>
                  [] v = VInt(1) -> <<"1">>
                  [] v = VInt(2) -> <<"2">>
                  [] v.t = "str" -> v.s

\* C9, amended: no row is deleted; verified-user, blacklist and existing bot
\* rows never change; a mapping row changes only when a set_mapping of the
\* step succeeded for its key, and then holds the string form of the target.
C9_WriteOnceExceptUpsert ==
    [][/\ \A k \in DOMAIN store.mappings :
            /\ k \in DOMAIN store'.mappings
            /\ store'.mappings[k] # store.mappings[k]
               => \E j \in 1..Len(calls') :
                    /\ calls'[j].op = "set_mapping"
                    /\ calls'[j].ok
                    /\ <<calls'[j].h, calls'[j].args[1], calls'[j].args[2]>> = k
                    /\ store'.mappings[k] = StrOracle(calls'[j].args[3])
       /\ RowsKept(store.verified, store'.verified)
       /\ store.blacklist \subseteq store'.blacklist
       /\ BotsWriteOnce]_vars

\* The run went through its four passes on a store that held rows: the old
\* mapping row was overwritten, the old verified and blacklist rows stayed,
\* and a verified user was added next to the old one.
C9_Witness ==
    /\ pc = "exit"
    /\ status = "success"
    /\ <<"a", "direct", "100">> \in DOMAIN store.mappings
    /\ store.mappings[<<"a", "direct", "100">>] = <<"2", "0", "0">>
    /\ <<"a", VInt(1)>> \in DOMAIN store.verified
    /\ store.verified[<<"a", VInt(1)>>].user_name = "old"
    /\ <<"a", VInt(2)>> \in DOMAIN store.verified
    /\ <<"a", VInt(1)>> \in store.blacklist
    /\ stats.mappings = 1
    /\ stats.verified_users = 1

TwiceDone == run_no = 2 /\ pc = "exit" /\ status # "failure"

KeyOracle(k) == CASE k = "direct" -> "direct"
                  [] k = "topic" -> "topics"
                  [] k = "user_forward" -> "user_to_forward"
                  [] k = "forward_user" -> "forward_to_user"
                  [] k = "owner_user" -> "owner_to_user"

SubStep == pc = "mappings_sub" /\ last'.in = "sub" /\ last'.sub.kind = "obj"

\* Each entry of the sub-mapping got exactly one upsert, in order, for
\* (handle, kind, source) with the target's string form; a write that
\* returned left that string in the store, one that raised left the row as
\* it was and appended an error.
WritesEntries(h, k, e) ==
    /\ Len(calls') = Len(e)
    /\ \A j \in 1..Len(e) :
        LET c == calls'[j]
            key == <<h, k, e[j][1]>>
        IN /\ c.op = "set_mapping"
           /\ c.h = h
           /\ c.args[1] = k
           /\ c.args[2] = e[j][1]
           /\ StrOracle(c.args[3]) = StrOracle(e[j][2])
           /\ IF c.ok
              THEN key \in DOMAIN store'.mappings
                   /\ store'.mappings[key] = StrOracle(e[j][2])
              ELSE IF key \in DOMAIN store.mappings
                   THEN key \in DOMAIN store'.mappings
                        /\ store'.mappings[key] = store.mappings[key]
                   ELSE key \notin DOMAIN store'.mappings
    /\ count' = count + NumOk(calls')
    /\ Len(stats'.errors) = Len(stats.errors) + Len(e) - NumOk(calls')

\* The group's count reaches the mapping counter after the fifth kind.
CountsGroup(k) ==
    stats'.mappings = IF k = "owner_user" THEN stats.mappings + count'
                      ELSE stats.mappings

\* C5 as stated: for each kind k, each entry of the group's sub-mapping keyed
\* by the name of the kind gets exactly one upsert (handle, k, source, string
\* of target), the store then maps (handle, k, source) to that string, and
\* the mapping counter grows by the number of successful writes.
C5_MappingWrites ==
    [][(SubStep /\ last'.key = last'.k)
       => /\ WritesEntries(last'.h, last'.k, last'.sub.entries)
          /\ CountsGroup(last'.k)]_vars

\* C5, amended: the sub-mapping of kind k is the one the group object holds
\* under the legacy key (direct, topics, user_to_forward, forward_to_user,
\* owner_to_user); each of its entries gets exactly one upsert, and a
\* sub-mapping held under another key is not read.
C5_MappingWritesLegacyKeys ==
    [][SubStep
       => /\ IF last'.key = KeyOracle(last'.k)
             THEN WritesEntries(last'.h, last'.k, last'.sub.entries)
             ELSE calls' = <<>> /\ store' = store /\ count' = count
                  /\ stats'.errors = stats.errors
          /\ CountsGroup(last'.k)
          /\ Running]_vars

\* The topics of a group were written, target 200 stored as "200", and the
\* group's count is two.
C5_Witness ==
    /\ last.in = "sub"
    /\ last.k = "topic"
    /\ last.key = "topics"
    /\ last.sub.entries = << <<"100", VInt(200)>> >>
    /\ calls # <<>>
    /\ calls[1].ok
    /\ store.mappings[<<last.h, "topic", "100">>] = <<"2", "0", "0">>
    /\ count = 2
    /\ <<last.h, "direct", "101">> \in DOMAIN store.mappings

\* The integer an id text of the model stands for, -1 when it is none.
IdOracle(text) == CASE text = <<"1">> -> 1
                    [] text = <<"2">> -> 2
                    [] text = <<"0", "1">> -> 1
                    [] OTHER -> -1

RawOracle(v) == IF v.t = "int" THEN v.i ELSE IdOracle(v.s)

\* One id, of either shape, handled as the claim says: coerced to the
\* integer id before the check and the insert; a failed coercion is one
\* error and nothing else; an id already verified is skipped.
HandledAsInteger(h, id) ==
    /\ id < 0 => /\ calls' = <<>>
                 /\ store' = store
                 /\ count' = count
                 /\ stats'.errors = Append(stats.errors, ErrAddVerified)
    /\ id >= 0 => \A j \in 1..Len(calls') : calls'[j].args[1] = VInt(id)
    /\ (id >= 0 /\ <<h, VInt(id)>> \in DOMAIN store.verified)
       => store' = store /\ count' = count /\ stats' = stats

\* C6: a raw id of a list leaves the rows its text leaves as the key of a
\* detail mapping, names apart; in both shapes the id is coerced to an
\* integer before the check and the insert, a failed coercion is one error
\* for that entry, and an id already verified is skipped silently.
C6_ShapeEquivalence ==
    [][/\ (pc = "verified_users" /\ last'.in = "list_user")
          => LET r == last'.user_id
                 d == DictUserCalls(store, last'.h, Str(r), PlainInfo,
                                    ~AnyRaised(calls'))
             IN /\ DOMAIN store'.verified = DOMAIN Apply(store, d).verified
                /\ HandledAsInteger(last'.h, RawOracle(r))
       /\ (pc = "verified_users" /\ last'.in = "dict_user"
           /\ last'.info.kind = "obj")
          => HandledAsInteger(last'.h, IdOracle(last'.key))]_vars
====
